---- MODULE Spec2Model ----
(***************************************************************************)
(* A model of gccome/ner: the tagged-corpus reader (Dataset), the token    *)
(* transform built by get_processing_word, and create_vocabulary with      *)
(* write_vocab (src/data_util.py).                                         *)
(*                                                                         *)
(* A string is a sequence of characters; each character is a one-letter    *)
(* TLA+ string, except DOCSTART, one atom standing for the ten characters  *)
(* of the literal '-DOCSTART-'.  A file is the sequence of its lines       *)
(* (without the line terminator).                                          *)
(***************************************************************************)
EXTENDS Integers, Sequences, FiniteSets, TLC

VARIABLES
    file,        \* the corpus file behind Dataset.filename: a sequence of lines
    pw,          \* Dataset.processing_word: "None", "lower" or "keepcase"
    length,      \* Dataset.length: <<>> is None, <<n>> is the cached count
    iters,       \* history: what each completed iteration of the Dataset gave
    lenRets,     \* history: what each call of len(dataset) returned
    wordsFile,   \* the file at vocab_words_path: [exists, lines]
    tagsFile,    \* the file at tags_path: [exists, lines]
    lastCall,    \* history: <<>> or the record of the last create_vocabulary call
    cfg,         \* the arguments get_processing_word was called with
    applied      \* history: <<token, f(token)>> of each call of the transform

vars == <<file, pw, length, iters, lenRets, wordsFile, tagsFile, lastCall, cfg, applied>>

datasetVars == <<length, iters, lenRets>>
vocabVars == <<wordsFile, tagsFile, lastCall>>
transformVars == <<cfg, applied>>

-----------------------------------------------------------------------------
(* Bounds of the model *)

MaxLines == 3        \* lines in a corpus file
MaxIters == 2        \* iterations of one Dataset
MaxLenCalls == 2     \* calls of len(dataset)
MaxVocabSize == 3    \* largest max_vocab_words_size tried
MaxVocab == 3        \* entries of a word vocabulary handed to the transform
MaxApplied == 2      \* calls of one transform

-----------------------------------------------------------------------------
(* Characters and the shared sentinels (data_util.py 8-10) *)

SP == " "
TAB == "\t"
DOCSTART == "-DOCSTART-"
Whitespace == {SP, TAB}
Digits == {"7", "4", "2"}

UNK == <<"_", "U", "N", "K">>
NUM == <<"_", "N", "U", "M">>

Range(s) == {s[i] : i \in 1..Len(s)}

SeqsUpTo(S, n) == UNION {[1..k -> S] : k \in 0..n}

-----------------------------------------------------------------------------
(* str.strip, str.startswith, str.split(' '), str.lower, str.isdigit *)

RECURSIVE LStrip(_)
LStrip(s) ==
    IF Len(s) > 0 /\ Head(s) \in Whitespace THEN LStrip(Tail(s)) ELSE s

RECURSIVE RStrip(_)
RStrip(s) ==
    IF Len(s) > 0 /\ s[Len(s)] \in Whitespace
    THEN RStrip(SubSeq(s, 1, Len(s) - 1))
    ELSE s

Strip(s) == RStrip(LStrip(s))

StartsWithDocstart(s) == Len(s) > 0 /\ s[1] = DOCSTART

\* line.split(' '): cuts at every single space, keeps empty fields, and always
\* returns at least one field.
RECURSIVE SplitFrom(_, _, _)
SplitFrom(s, cur, out) ==
    IF Len(s) = 0 THEN Append(out, cur)
    ELSE IF Head(s) = SP THEN SplitFrom(Tail(s), <<>>, Append(out, cur))
    ELSE SplitFrom(Tail(s), Append(cur, Head(s)), out)

Split(s) == SplitFrom(s, <<>>, <<>>)

LowerChar(c) ==
    CASE c = "C" -> "c"
      [] c = "U" -> "u"
      [] c = "N" -> "n"
      [] c = "K" -> "k"
      [] c = "M" -> "m"
      [] c = "O" -> "o"
      [] c = "B" -> "b"
      [] OTHER -> c

Lower(s) == [i \in 1..Len(s) |-> LowerChar(s[i])]

IsDigitOneChar(s) == Len(s) = 1 /\ s[1] \in Digits

IsDigit(s) == Len(s) > 0 /\ \A i \in 1..Len(s) : s[i] \in Digits

-----------------------------------------------------------------------------
(* get_processing_word: the transform f (data_util.py 83-105) *)

\* step 1 of f: lowercase, then collapse an all-digit word to NUM
Normalize(word, lowercase) ==
    LET w == IF lowercase THEN Lower(word) ELSE word
    IN  IF IsDigit(w) THEN NUM ELSE w

\* the processing_word of a Dataset built without vocabularies (run.py 10-13)
DatasetWord(p, word) ==
    IF p = "None" THEN word ELSE Normalize(word, p = "lower")

\* step 0 of f: the ids of the characters of the untransformed word that the
\* character vocabulary holds, the others dropped
RECURSIVE CharIds(_, _)
CharIds(word, vocab_chars) ==
    IF Len(word) = 0 THEN <<>>
    ELSE IF Head(word) \in DOMAIN vocab_chars
         THEN <<vocab_chars[Head(word)]>> \o CharIds(Tail(word), vocab_chars)
         ELSE CharIds(Tail(word), vocab_chars)

\* step 2 of f: vocab_words.get(word, vocab_words[UNK]); the default is
\* evaluated before the lookup, so a vocabulary without UNK raises KeyError
WordId(vocab_words, w) ==
    IF UNK \notin DOMAIN vocab_words THEN [ok |-> FALSE, id |-> 0]
    ELSE IF w \in DOMAIN vocab_words THEN [ok |-> TRUE, id |-> vocab_words[w]]
    ELSE [ok |-> TRUE, id |-> vocab_words[UNK]]

\* f(word) for the arguments c of get_processing_word.  shape is "pair" for
\* (char_ids, word) and "word" for word alone; word is an id when a word
\* vocabulary was given and the normalized string otherwise.
F(c, word) ==
    LET chars == c.has_chars /\ c.use_chars
        char_ids == IF chars THEN CharIds(word, c.vocab_chars) ELSE <<>>
        w == Normalize(word, c.lowercase)
        shape == IF chars THEN "pair" ELSE "word"
    IN  IF c.has_vocab
        THEN LET r == WordId(c.vocab_words, w)
             IN  IF r.ok
                 THEN [status |-> "ok", shape |-> shape,
                       char_ids |-> char_ids, word |-> r.id]
                 ELSE [status |-> "KeyError", shape |-> shape,
                       char_ids |-> <<>>, word |-> 0]
        ELSE [status |-> "ok", shape |-> shape,
              char_ids |-> char_ids, word |-> w]

-----------------------------------------------------------------------------
(* Dataset.__iter__ (data_util.py 42-61) *)

\* the (word, tag) of one token line: ls[0] and ls[-1] of its fields
LineTagSecond(ls) ==
    IF Len(ls) < 2 THEN [ok |-> FALSE, tag |-> <<>>]
    ELSE [ok |-> TRUE, tag |-> ls[2]]

LineTag(ls) ==
    IF Len(ls) = 0 THEN [ok |-> FALSE, tag |-> <<>>]
    ELSE [ok |-> TRUE, tag |-> ls[Len(ls)]]

LineWord(ls) ==
    IF Len(ls) = 0 THEN [ok |-> FALSE, word |-> <<>>]
    ELSE [ok |-> TRUE, word |-> ls[1]]

Sentence(words, tags) == [words |-> words, tags |-> tags]

RECURSIVE IterLoop(_, _, _, _, _)
IterLoop(lines, p, words, tags, out) ==
    IF Len(lines) = 0
    THEN \* yield last sentence
         [status |-> "ok", sentences |-> Append(out, Sentence(words, tags))]
    ELSE LET line == Strip(Head(lines)) IN
         IF Len(line) = 0 \/ StartsWithDocstart(line)
         THEN IF Len(words) # 0
              THEN IterLoop(Tail(lines), p, <<>>, <<>>,
                            Append(out, Sentence(words, tags)))
              ELSE IterLoop(Tail(lines), p, words, tags, out)
         ELSE LET ls == Split(line)
                  w == LineWord(ls)
                  t == LineTag(ls)
              IN  IF ~w.ok \/ ~t.ok
                  THEN [status |-> "IndexError", sentences |-> out]
                  ELSE IterLoop(Tail(lines), p,
                                Append(words, DatasetWord(p, w.word)),
                                Append(tags, t.tag), out)

Iterate(f, p) == IterLoop(f, p, <<>>, <<>>, <<>>)

-----------------------------------------------------------------------------
(* Dataset.__len__ (data_util.py 63-68) *)

None == <<>>

\* the value of self.length after a call that counted n sentences
CachedLengthAccumulate(len, n) == IF len = None THEN <<n>> ELSE <<len[1] + n>>

CachedLength(len, n) == IF len = None THEN <<n>> ELSE len

-----------------------------------------------------------------------------
(* create_vocabulary and write_vocab (data_util.py 110-161) *)

Min(a, b) == IF a < b THEN a ELSE b

RECURSIVE Concat(_)
Concat(ss) == IF Len(ss) = 0 THEN <<>> ELSE Head(ss) \o Concat(Tail(ss))

\* the words, and the tags, of all sentences in the order the Counter sees them
AllWords(sentences) == Concat([n \in 1..Len(sentences) |-> sentences[n].words])
AllTags(sentences) == Concat([n \in 1..Len(sentences) |-> sentences[n].tags])

\* collections.Counter: its keys in insertion (first-seen) order, as a dict
\* keeps them, and its counts
RECURSIVE CounterKeys(_, _)
CounterKeys(items, keys) ==
    IF Len(items) = 0 THEN keys
    ELSE CounterKeys(Tail(items),
                     IF Head(items) \in Range(keys) THEN keys
                     ELSE Append(keys, Head(items)))

Count(x, items) == Cardinality({i \in 1..Len(items) : items[i] = x})

\* sorted(counts, key=counts.get, reverse=True) is stable: a key goes behind
\* every key already placed whose count is at least its own
InsertByCountTiesReversed(sorted, x, items) ==
    LET ahead == {i \in 1..Len(sorted) : Count(sorted[i], items) > Count(x, items)}
        n == Cardinality(ahead)
    IN  SubSeq(sorted, 1, n) \o <<x>> \o SubSeq(sorted, n + 1, Len(sorted))

InsertByCount(sorted, x, items) ==
    LET ahead == {i \in 1..Len(sorted) : Count(sorted[i], items) >= Count(x, items)}
        n == Cardinality(ahead)
    IN  SubSeq(sorted, 1, n) \o <<x>> \o SubSeq(sorted, n + 1, Len(sorted))

RECURSIVE SortFrom(_, _, _)
SortFrom(keys, sorted, items) ==
    IF Len(keys) = 0 THEN sorted
    ELSE SortFrom(Tail(keys), InsertByCount(sorted, Head(keys), items), items)

SortedByCount(items) == SortFrom(CounterKeys(items, <<>>), <<>>, items)

\* words_vocab[:max_vocab_words_size], for a size that is not negative
TruncateOneMore(vocab, k) == SubSeq(vocab, 1, Min(k + 1, Len(vocab)))

Truncate(vocab, k) == SubSeq(vocab, 1, Min(k, Len(vocab)))

\* lines 132-143: rank, add NUM if not in vocab, add UNK, cut to the size
WordsVocab(words, max) ==
    LET ranked == SortedByCount(words)
        withNum == IF NUM \notin Range(ranked) THEN <<NUM>> \o ranked ELSE ranked
        withUnk == <<UNK>> \o withNum
    IN  IF max # None THEN Truncate(withUnk, max[1]) ELSE withUnk

TagsVocab(tags) == SortedByCount(tags)

\* write_vocab: one word per line, replacing what the file held
WriteVocab(vocab) == [exists |-> TRUE, lines |-> vocab]

\* gfile.Exists(path)
Exists(f) == f.exists

\* bool(gfile.GFile(path)): the file object is true whether or not a file is
\* at the path; constructing it opens and creates nothing
GFileIsTrue(f) == TRUE

\* line 122: not gfile.Exists(vocab_words_path) or not gfile.GFile(tags_path)
NeedsBuildAlways(wf, tf) == TRUE

NeedsBuild(wf, tf) == ~Exists(wf) \/ ~GFileIsTrue(tf)

-----------------------------------------------------------------------------
(* The Dataset specification: one Dataset over one file, iterated and      *)
(* measured in any order.                                                  *)

DatasetLines ==
    { <<>>,                               \* blank
      <<SP>>,                             \* whitespace only
      <<DOCSTART>>,                       \* document marker
      <<DOCSTART, SP, "a", SP, "b">>,     \* document marker with fields
      <<"a">>,                            \* a single field
      <<"a", SP, "b">>,                   \* token and label
      <<"b", SP, "a", SP, "a">>,          \* token, middle field, label
      <<SP, "b", SP, "b", SP>>,           \* padded
      <<"a", TAB, "b">> }                 \* tab between token and label

DatasetFiles == SeqsUpTo(DatasetLines, MaxLines)

NoFile == [exists |-> FALSE, lines |-> <<>>]
NoCfg == [vocab_words |-> <<>>, has_vocab |-> FALSE, lowercase |-> FALSE,
          vocab_chars |-> <<>>, has_chars |-> FALSE, use_chars |-> FALSE]

InitDataset ==
    /\ file \in DatasetFiles
    /\ pw = "None"
    /\ length = None
    /\ iters = <<>>
    /\ lenRets = <<>>
    /\ wordsFile = NoFile
    /\ tagsFile = NoFile
    /\ lastCall = <<>>
    /\ cfg = NoCfg
    /\ applied = <<>>

\* list(dataset): one full iteration
DatasetIter ==
    /\ Len(iters) < MaxIters
    /\ iters' = Append(iters, Iterate(file, pw))
    /\ UNCHANGED <<file, pw, length, lenRets, vocabVars, transformVars>>

\* len(dataset)
DatasetLen ==
    /\ Len(lenRets) < MaxLenCalls
    /\ LET r == Iterate(file, pw)
           new == CachedLength(length, Len(r.sentences))
       IN  /\ length # None \/ r.status = "ok"
           /\ length' = new
           /\ lenRets' = Append(lenRets, new[1])
    /\ UNCHANGED <<file, pw, iters, vocabVars, transformVars>>

NextDataset == DatasetIter \/ DatasetLen

SpecDataset == InitDataset /\ [][NextDataset]_vars

-----------------------------------------------------------------------------
(* The vocabulary specification: create_vocabulary([dataset], words path,  *)
(* tags path, max size) called any number of times, as run.py 10-12 calls  *)
(* it, from any combination of the two output files existing or missing.   *)

CorpusLines ==
    { <<>>,
      <<"c", SP, "O">>,
      <<"C", SP, "B">>,
      <<"d", SP, "O">>,
      <<"7", SP, "O">>,
      UNK \o <<SP, "O">>,
      NUM \o <<SP, "B">> }

CorpusFiles == SeqsUpTo(CorpusLines, MaxLines)

OldFile == [exists |-> TRUE, lines |-> << <<"o", "l", "d">> >>]

MaxSizes == {None} \cup {<<k>> : k \in 0..MaxVocabSize}

InitVocab ==
    /\ file \in CorpusFiles
    /\ pw \in {"None", "lower", "keepcase"}
    /\ length = None
    /\ iters = <<>>
    /\ lenRets = <<>>
    /\ wordsFile \in {NoFile, OldFile}
    /\ tagsFile \in {NoFile, OldFile}
    /\ lastCall = <<>>
    /\ cfg = NoCfg
    /\ applied = <<>>

CreateVocabulary(max) ==
    LET build == NeedsBuild(wordsFile, tagsFile)
        r == Iterate(file, pw)
        done == build /\ r.status = "ok"
    IN  /\ wordsFile' = IF done
                        THEN WriteVocab(WordsVocab(AllWords(r.sentences), max))
                        ELSE wordsFile
        /\ tagsFile' = IF done
                       THEN WriteVocab(TagsVocab(AllTags(r.sentences)))
                       ELSE tagsFile
        /\ lastCall' = << [preWords |-> wordsFile, preTags |-> tagsFile,
                           max |-> max, counted |-> build,
                           returned |-> (~build \/ r.status = "ok")] >>
        /\ UNCHANGED <<file, pw, datasetVars, transformVars>>

NextVocab == \E max \in MaxSizes : CreateVocabulary(max)

SpecVocab == InitVocab /\ [][NextVocab]_vars

-----------------------------------------------------------------------------
(* The transform specification: one f built by get_processing_word, applied *)
(* to tokens.                                                               *)

Tokens ==
    { <<"c">>, <<"C">>, <<"d">>, <<"7">>, <<"4", "2">>, <<"c", "7">>, UNK, NUM }

VocabPool == {UNK, NUM, <<"c">>, <<"7">>}

\* a vocabulary file read back as a dict: each line to its zero-based number
DictOf(lines) ==
    [w \in Range(lines) |-> (CHOOSE i \in 1..Len(lines) : lines[i] = w) - 1]

VocabLists ==
    {l \in SeqsUpTo(VocabPool, MaxVocab) : Cardinality(Range(l)) = Len(l)}

WordVocabArgs ==
    {[v |-> <<>>, h |-> FALSE]} \cup {[v |-> DictOf(l), h |-> TRUE] : l \in VocabLists}

CharVocabArgs ==
    {[v |-> <<>>, h |-> FALSE], [v |-> DictOf(<<"c", "7", "U">>), h |-> TRUE]}

Cfgs ==
    {[vocab_words |-> d.v, has_vocab |-> d.h, lowercase |-> l,
      vocab_chars |-> c.v, has_chars |-> c.h, use_chars |-> u] :
        d \in WordVocabArgs, l \in BOOLEAN, c \in CharVocabArgs, u \in BOOLEAN}

InitTransform ==
    /\ file = <<>>
    /\ pw = "None"
    /\ length = None
    /\ iters = <<>>
    /\ lenRets = <<>>
    /\ wordsFile = NoFile
    /\ tagsFile = NoFile
    /\ lastCall = <<>>
    /\ cfg \in Cfgs
    /\ applied = <<>>

\* f(token)
ApplyTransform(token) ==
    /\ Len(applied) < MaxApplied
    /\ applied' = Append(applied, [token |-> token, result |-> F(cfg, token)])
    /\ UNCHANGED <<file, pw, datasetVars, vocabVars, cfg>>

NextTransform == \E token \in Tokens : ApplyTransform(token)

SpecTransform == InitTransform /\ [][NextTransform]_vars

-----------------------------------------------------------------------------
(* Properties of the Dataset *)

IsBlank(line) == Len(Strip(line)) = 0
IsMarker(line) == StartsWithDocstart(Strip(line))
IsTokenLine(line) == ~IsBlank(line) /\ ~IsMarker(line)

TokenLines(f) == {i \in 1..Len(f) : IsTokenLine(f[i])}

\* the fields of a line when any run of whitespace separates them
RECURSIVE WsFieldsFrom(_, _, _)
WsFieldsFrom(s, cur, out) ==
    IF Len(s) = 0 THEN (IF Len(cur) > 0 THEN Append(out, cur) ELSE out)
    ELSE IF Head(s) \in Whitespace
         THEN WsFieldsFrom(Tail(s), <<>>,
                           IF Len(cur) > 0 THEN Append(out, cur) ELSE out)
         ELSE WsFieldsFrom(Tail(s), Append(cur, Head(s)), out)

WsFields(line) == WsFieldsFrom(line, <<>>, <<>>)

\* the first line of each maximal run of token lines, and the run's last line
RunStarts(f) == {i \in TokenLines(f) : i = 1 \/ (i - 1) \notin TokenLines(f)}
RunEnd(f, i) ==
    CHOOSE j \in i..Len(f) :
        /\ \A k \in i..j : k \in TokenLines(f)
        /\ (j = Len(f) \/ (j + 1) \notin TokenLines(f))
NthStart(f, n) ==
    CHOOSE i \in RunStarts(f) : Cardinality({j \in RunStarts(f) : j < i}) = n - 1

\* the sentence the run starting at line i stands for
RunSentence(f, i) ==
    LET last == RunEnd(f, i)
        n == last - i + 1
    IN  Sentence([k \in 1..n |-> WsFields(f[i + k - 1])[1]],
                 [k \in 1..n |->
                      LET fs == WsFields(f[i + k - 1]) IN fs[Len(fs)]])

RunSentences(f) ==
    [n \in 1..Cardinality(RunStarts(f)) |-> RunSentence(f, NthStart(f, n))]

\* every (word, tag) an iteration yielded, in order
RECURSIVE Pairs(_)
Pairs(sentences) ==
    IF Len(sentences) = 0 THEN <<>>
    ELSE LET s == Head(sentences)
         IN  [k \in 1..Len(s.words) |-> <<s.words[k], s.tags[k]>>]
                 \o Pairs(Tail(sentences))

\* C1: every (tokens, labels) pair an iteration yields is non-empty and has as
\* many tokens as labels, whatever the file; a file of only blank lines yields
\* no sentence.
C1_YieldedNonEmpty ==
    \A k \in 1..Len(iters) :
        /\ \A n \in 1..Len(iters[k].sentences) :
              LET s == iters[k].sentences[n]
              IN  Len(s.words) > 0 /\ Len(s.words) = Len(s.tags)
        /\ (\A i \in 1..Len(file) : IsBlank(file[i]))
              => Len(iters[k].sentences) = 0

\* C5: an iteration yields, in file order, exactly one sentence per maximal run
\* of consecutive token lines, each token line giving (first field, last field)
\* of its whitespace-separated fields; boundary lines give nothing.
C5_OneSentencePerRun ==
    \A k \in 1..Len(iters) :
        /\ iters[k].status = "ok"
        /\ iters[k].sentences = RunSentences(file)

\* a file of N >= 1 sentences with exactly one blank line between neighbours
WellFormedCorpus(f) ==
    /\ Len(f) >= 1
    /\ IsTokenLine(f[1])
    /\ IsTokenLine(f[Len(f)])
    /\ \A i \in 1..Len(f) : IsTokenLine(f[i]) \/ IsBlank(f[i])
    /\ \A i \in 1..(Len(f) - 1) : ~(IsBlank(f[i]) /\ IsBlank(f[i + 1]))

SentenceCount(f) == Cardinality({i \in 1..Len(f) : IsBlank(f[i])}) + 1

SingleFieldLines(f) ==
    {i \in TokenLines(f) : \A k \in 1..Len(Strip(f[i])) : Strip(f[i])[k] \notin Whitespace}

\* C9 as stated: a token line with a single field makes the iteration fail.
C9_SingleFieldFails ==
    \A k \in 1..Len(iters) :
        SingleFieldLines(file) # {} => iters[k].status # "ok"

\* C9 as amended: a token line with a single field never makes the iteration
\* fail; the iteration yields one pair per token line, and for a single-field
\* line that pair has the field as its word and as its tag.
C9_SingleFieldIsWordAndTag ==
    \A k \in 1..Len(iters) :
        /\ iters[k].status = "ok"
        /\ Len(Pairs(iters[k].sentences)) = Cardinality(TokenLines(file))
        /\ \A i \in SingleFieldLines(file) :
              LET n == Cardinality({j \in TokenLines(file) : j <= i})
              IN  Pairs(iters[k].sentences)[n] = <<Strip(file[i]), Strip(file[i])>>

C9_Witness ==
    /\ Len(iters) >= 1
    /\ SingleFieldLines(file) # {}
    /\ Cardinality(TokenLines(file)) >= 2

-----------------------------------------------------------------------------
(* Properties of create_vocabulary *)

\* the words the Dataset yields, in corpus order: what the Counter is fed
CorpusWords == AllWords(Iterate(file, pw).sentences)

FirstSeen(x, items) == CHOOSE i \in 1..Len(items) :
                           items[i] = x /\ \A j \in 1..(i - 1) : items[j] # x

\* x ranks before y: a higher count, or the same count and seen first
RanksBefore(x, y, items) ==
    \/ Count(x, items) > Count(y, items)
    \/ /\ Count(x, items) = Count(y, items)
       /\ FirstSeen(x, items) < FirstSeen(y, items)

NoDuplicates(l) == \A i, j \in 1..Len(l) : l[i] = l[j] => i = j

\* l lists words of items, each once, in rank order, and no word left out of l
\* ranks before a word in l
TopRanked(l, items) ==
    /\ NoDuplicates(l)
    /\ Range(l) \subseteq Range(items)
    /\ \A i, j \in 1..Len(l) : i < j => RanksBefore(l[i], l[j], items)
    /\ \A x \in Range(items) \ Range(l) : \A i \in 1..Len(l) :
           RanksBefore(l[i], x, items)

\* l lists exactly the given words of items, each once, in rank order
Ranked(l, wordSet, items) == TopRanked(l, items) /\ Range(l) = wordSet

\* the last call built the vocabularies, so wordsFile is what it wrote
Built == lastCall # <<>> /\ lastCall[1].counted /\ lastCall[1].returned

\* C2 as stated: through the lowercasing transform and with no max size, the
\* written word vocabulary is UNK, then NUM, then the remaining distinct words
\* by descending count, equal counts in first-seen order.
C2_UnkNumThenRanked ==
    (Built /\ pw = "lower" /\ lastCall[1].max = None) =>
        LET v == wordsFile.lines IN
        /\ Len(v) >= 2
        /\ v[1] = UNK
        /\ v[2] = NUM
        /\ Ranked(SubSeq(v, 3, Len(v)), Range(CorpusWords) \ {NUM}, CorpusWords)

\* C2 as amended: UNK is at position 0; when the corpus holds no all-digit
\* token, NUM is at position 1 and the distinct words follow by descending
\* count, equal counts in first-seen order; when it holds one, NUM is not put
\* in front but stands among the words at the rank its own count gives it.
C2_UnkThenRankedWithNum ==
    (Built /\ pw = "lower" /\ lastCall[1].max = None) =>
        LET v == wordsFile.lines IN
        /\ Len(v) >= 2
        /\ v[1] = UNK
        /\ IF NUM \in Range(CorpusWords)
           THEN Ranked(Tail(v), Range(CorpusWords), CorpusWords)
           ELSE /\ v[2] = NUM
                /\ Ranked(SubSeq(v, 3, Len(v)), Range(CorpusWords), CorpusWords)

C2_Witness ==
    /\ Built /\ pw = "lower" /\ lastCall[1].max = None
    /\ NUM \in Range(CorpusWords)
    /\ wordsFile.lines[2] # NUM
    /\ \E x, y \in Range(CorpusWords) :
           x # y /\ Count(x, CorpusWords) = Count(y, CorpusWords)

C4_NoDuplicateEntries ==
    Built => NoDuplicates(wordsFile.lines)

\* C7: a call made with both the words file and the tags file existing
\* iterates no dataset and leaves both files as they were.
C7_SkipWhenBothExist ==
    (lastCall # <<>> /\ lastCall[1].preWords.exists /\ lastCall[1].preTags.exists) =>
        /\ ~lastCall[1].counted
        /\ wordsFile = lastCall[1].preWords
        /\ tagsFile = lastCall[1].preTags

\* the second of two runs: the first built both files, the second found them
C7_Witness ==
    /\ lastCall # <<>>
    /\ lastCall[1].preWords.exists /\ lastCall[1].preTags.exists
    /\ lastCall[1].preWords # OldFile
    /\ Len(lastCall[1].preWords.lines) >= 3

\* C10: after a create_vocabulary call that returned, both vocabulary files
\* exist, whichever of them existed before.
C10_BothFilesExistAfterCall ==
    (lastCall # <<>> /\ lastCall[1].returned) =>
        wordsFile.exists /\ tagsFile.exists

-----------------------------------------------------------------------------
(* Properties of the transform *)

AllDigits(token) == Len(token) > 0 /\ Range(token) \subseteq Digits

\* C8: with a word vocabulary holding UNK and NUM, a token whose lowercased
\* (when asked for) form is not in the vocabulary maps to the id of UNK, an
\* all-digit token maps to the id of NUM whatever its length, and two calls
\* with the same token return the same result.
C8_UnkNumDeterministic ==
    (cfg.has_vocab /\ {UNK, NUM} \subseteq DOMAIN cfg.vocab_words) =>
        /\ \A k \in 1..Len(applied) :
              LET t == applied[k].token
                  r == applied[k].result
                  low == IF cfg.lowercase THEN Lower(t) ELSE t
              IN  /\ r.status = "ok"
                  /\ AllDigits(t) => r.word = cfg.vocab_words[NUM]
                  /\ (~AllDigits(t) /\ low \notin DOMAIN cfg.vocab_words)
                         => r.word = cfg.vocab_words[UNK]
        /\ \A j, k \in 1..Len(applied) :
              applied[j].token = applied[k].token
                  => applied[j].result = applied[k].result

C8_Witness ==
    /\ cfg.has_vocab /\ {UNK, NUM} \subseteq DOMAIN cfg.vocab_words
    /\ cfg.vocab_words[NUM] # cfg.vocab_words[UNK]
    /\ \E j, k \in 1..Len(applied) :
          /\ AllDigits(applied[j].token) /\ Len(applied[j].token) >= 2
          /\ ~AllDigits(applied[k].token)
          /\ Lower(applied[k].token) \notin DOMAIN cfg.vocab_words
          /\ applied[k].result.word = cfg.vocab_words[UNK]

====
